---- MODULE Spec2Model ----
(***************************************************************************)
(* Model of hf_addr2line.py: a linear pipeline that validates two paths,   *)
(* reads a firmware log, extracts HF_ADDR PC/LR address pairs with a       *)
(* regular expression, de-duplicates them in first-seen order, and calls   *)
(* arm-none-eabi-addr2line once per unique address, printing a report.     *)
(*                                                                         *)
(* Text is modelled as a sequence of one-character strings, so that the    *)
(* regular expression, int(.., 16), the 08X format and str.strip() are     *)
(* computed character by character.                                        *)
(*                                                                         *)
(* Python integers are unbounded; the addresses of the modelled logs are   *)
(* flash addresses below 0x80000000, which the model checker's integers    *)
(* hold exactly.  The filesystem does not change during a run.             *)
(***************************************************************************)
EXTENDS Integers, Sequences, FiniteSets, TLC

\* ------------------------------------------------------------------ bounds

\* Number of log fragments concatenated to form the log file.
MaxChunks == 2

\* ------------------------------------------------------- text primitives

\* {8} in the pattern; also the width of the 08X format.
HexLen == 8

UpperHex == <<"0", "1", "2", "3", "4", "5", "6", "7", "8", "9", "A", "B", "C", "D", "E", "F">>

LowerHex == <<"0", "1", "2", "3", "4", "5", "6", "7", "8", "9", "a", "b", "c", "d", "e", "f">>

\* [0-9a-fA-F]
HexDigit == {UpperHex[i] : i \in 1..16} \cup {LowerHex[i] : i \in 1..16}

\* \s (the members that occur in the modelled inputs)
Whitespace == {" ", "\t", "\n"}

\* A byte that does not decode as text.
InvalidByte == "<FF>"

\* Digit values, either case.
HexTable ==
  [c \in HexDigit |-> CHOOSE v \in 0..15 : UpperHex[v + 1] = c \/ LowerHex[v + 1] = c]

\* Value of one hexadecimal digit as int(.., 16) reads it.
HexVal(c) == HexTable[c]

RECURSIVE ParseHex(_)
\* int(s, 16)
ParseHex(s) ==
  IF s = <<>> THEN 0
  ELSE ParseHex(SubSeq(s, 1, Len(s) - 1)) * 16 + HexVal(s[Len(s)])

RECURSIVE HexDigitsOf(_)
\* Uppercase hexadecimal digits of n, most significant first, no padding.
HexDigitsOf(n) ==
  IF n < 16 THEN <<UpperHex[n + 1]>>
  ELSE HexDigitsOf(n \div 16) \o <<UpperHex[(n % 16) + 1]>>

RECURSIVE ZeroPad(_, _)
ZeroPad(s, w) == IF Len(s) >= w THEN s ELSE ZeroPad(<<"0">> \o s, w)

\* The digits a lowercase-x format would print.
Format08X_Lower(addr) ==
  LET up == ZeroPad(HexDigitsOf(addr), HexLen)
  IN  <<"0", "x">> \o [k \in 1..Len(up) |-> LowerHex[HexVal(up[k]) + 1]]

\* f'0x{addr:08X}'
Format08X(addr) == <<"0", "x">> \o ZeroPad(HexDigitsOf(addr), HexLen)

RECURSIVE LStrip(_)
LStrip(s) ==
  IF s # <<>> /\ s[1] \in Whitespace THEN LStrip(Tail(s)) ELSE s

RECURSIVE RStrip(_)
RStrip(s) ==
  IF s # <<>> /\ s[Len(s)] \in Whitespace
  THEN RStrip(SubSeq(s, 1, Len(s) - 1)) ELSE s

\* str.strip()
Strip(s) == RStrip(LStrip(s))

\* read_text(errors='ignore'): undecodable bytes are dropped.
Decode(bytes) == SelectSeq(bytes, LAMBDA b : b # InvalidByte)

\* ------------------------------------------------------------ the pattern

Tok_HF_ADDR == <<"H", "F", "_", "A", "D", "D", "R">>

Tok_PC == <<"P", "C", "=", "0", "x">>

Tok_LR == <<"L", "R", "=", "0", "x">>

\* The literal lit occurs in text at position i.
LitAt(text, i, lit) ==
  /\ i + Len(lit) - 1 <= Len(text)
  /\ \A k \in 1..Len(lit) : text[i + k - 1] = lit[k]

RECURSIVE WsRun(_, _)
\* Length of the maximal whitespace run starting at i (\s+ is greedy, and the
\* token after it never starts with whitespace, so no backtracking occurs).
WsRun(text, i) ==
  IF i <= Len(text) /\ text[i] \in Whitespace THEN 1 + WsRun(text, i + 1) ELSE 0

RECURSIVE HexRun(_, _)
\* Length of the maximal run of hexadecimal digits starting at i.
HexRun(text, i) ==
  IF i <= Len(text) /\ text[i] \in HexDigit THEN 1 + HexRun(text, i + 1) ELSE 0

\* [0-9a-fA-F]{8} at position i.
HexFieldAt(text, i) ==
  /\ i + HexLen - 1 <= Len(text)
  /\ \A k \in 0..(HexLen - 1) : text[i + k] \in HexDigit

\* Positions of the parts of an attempted match starting at i.
Layout(text, i) ==
  LET w1 == i + Len(Tok_HF_ADDR)
      p  == w1 + WsRun(text, w1)
      pd == p + Len(Tok_PC)
      w2 == pd + HexLen
      l  == w2 + WsRun(text, w2)
      ld == l + Len(Tok_LR)
  IN  [w1 |-> w1, p |-> p, pd |-> pd, w2 |-> w2, l |-> l, ld |-> ld,
       end |-> ld + HexLen]

\* HF_ADDR\s+PC=0x([0-9a-fA-F]{8})\s+LR=0x([0-9a-fA-F]{8}) matches at i.
MatchesAt(text, i) ==
  LET y == Layout(text, i)
  IN  /\ LitAt(text, i, Tok_HF_ADDR)
      /\ y.p > y.w1
      /\ LitAt(text, y.p, Tok_PC)
      /\ HexFieldAt(text, y.pd)
      /\ y.l > y.w2
      /\ LitAt(text, y.l, Tok_LR)
      /\ HexFieldAt(text, y.ld)

\* m.groups() of the match at i, with the match's extent.
MatchRec(text, i) ==
  LET y == Layout(text, i)
  IN  [start  |-> i,
       end    |-> y.end,
       pc_at  |-> y.pd,
       lr_at  |-> y.ld,
       pc_hex |-> SubSeq(text, y.pd, y.pd + HexLen - 1),
       lr_hex |-> SubSeq(text, y.ld, y.ld + HexLen - 1)]

\* Start of the leftmost match at or after pos, 0 when there is none.
SearchFrom(text, pos) ==
  LET hits == {i \in pos..Len(text) : MatchesAt(text, i)}
  IN  IF hits = {} THEN 0
      ELSE CHOOSE i \in hits : \A j \in hits : i <= j

\* A scan that keeps only the PC of each match.
MatchAddrs_PcOnly(m) == <<ParseHex(m.pc_hex)>>

\* What one finditer iteration appends: int(pc_hex, 16) then int(lr_hex, 16).
MatchAddrs(m) == <<ParseHex(m.pc_hex), ParseHex(m.lr_hex)>>

\* First-occurrence test that lets every value through.
IsNew_Always(a, s) == TRUE

\* `a not in seen`
IsNew(a, s) == a \notin s

\* ----------------------------------------------------------------- inputs

H_1234 == <<"0", "8", "0", "0", "1", "2", "3", "4">>

H_0F00 == <<"0", "8", "0", "0", "0", "F", "0", "0">>

H_0f00 == <<"0", "8", "0", "0", "0", "f", "0", "0">>

H_BEEF == <<"0", "8", "0", "0", "B", "E", "E", "F">>

H_beef == <<"0", "8", "0", "0", "b", "e", "e", "f">>

\* A log line: token, whitespace, PC field, whitespace, LR field, then tail.
Line(ws1, pcd, ws2, lrd, tail) ==
  Tok_HF_ADDR \o ws1 \o Tok_PC \o pcd \o ws2 \o Tok_LR \o lrd \o tail

\* Pieces the log file is assembled from.
Fragments ==
  { \* the spec's example line
    Line(<<" ">>, H_1234, <<" ">>, H_0F00, <<"\n">>),
    \* lowercase digits, mixed whitespace, a line break inside, no newline after
    Line(<<" ", "\t">>, H_0f00, <<"\n">>, H_beef, <<>>),
    \* PC = LR, text before the token
    <<"x", " ">> \o Line(<<" ">>, H_BEEF, <<" ">>, H_BEEF, <<"\n">>),
    \* PC field of 7 digits
    Line(<<" ">>, SubSeq(H_1234, 1, 7), <<" ">>, H_0F00, <<"\n">>),
    \* PC field of 9 digits
    Line(<<" ">>, H_1234 \o <<"5">>, <<" ">>, H_0F00, <<"\n">>),
    \* LR field of 9 digits
    Line(<<" ">>, H_1234, <<" ">>, H_0F00 \o <<"A">>, <<"\n">>),
    \* LR field of 7 digits
    Line(<<" ">>, H_1234, <<" ">>, SubSeq(H_0F00, 1, 7), <<"\n">>),
    \* no whitespace after the token
    Line(<<>>, H_1234, <<" ">>, H_0F00, <<"\n">>),
    \* an undecodable byte inside the PC field
    Line(<<" ">>, <<"0", "8", "0", "0", InvalidByte, "1", "2", "3", "4">>,
         <<" ">>, H_BEEF, <<"\n">>),
    \* a lone hex digit (extends a preceding unterminated LR field)
    <<"5">>,
    \* unrelated text
    <<"o", "k", "\n">> }

RECURSIVE Logs(_)
\* Concatenations of at most n fragments.
Logs(n) ==
  IF n = 0 THEN {<<>>}
  ELSE LET shorter == Logs(n - 1)
       IN  shorter \cup {l \o f : l \in shorter, f \in Fragments}

Paths == {"fw.elf", "crash.log"}

Argvs ==
  { <<"hf_addr2line.py">>,
    <<"hf_addr2line.py", "fw.elf">>,
    <<"hf_addr2line.py", "fw.elf", "crash.log">>,
    <<"hf_addr2line.py", "fw.elf", "crash.log", "extra">> }

\* Texts the external resolver may write (stdout and stderr combined).
ResolverOutputs ==
  { <<"m", "a", "i", "n", "\n", "a", ".", "c", ":", "7", "\n">>,
    <<" ", "?", "?", "\n", "?", "?", ":", "0", " ", "\n">> }

\* ------------------------------------------------------------------ state

VARIABLES
  argv,          \* sys.argv
  isfile,        \* the filesystem: path -> is a regular file
  logBytes,      \* contents of the log file
  pc,            \* position in main()
  exit_code,     \* process exit status, -1 while running
  out,           \* standard output, one record per print call
  err,           \* error stream, one record per diagnostic
  logReads,      \* number of times the log file has been read
  log_text,
  pos,           \* finditer's scan position
  matches,       \* the match objects finditer has yielded
  addrs,
  di,            \* index of the de-duplication loop
  seen,
  unique_addrs,
  ri,            \* index of the report loop
  calls          \* every attempt to run the resolver, in order

vars ==
  <<argv, isfile, logBytes, pc, exit_code, out, err, logReads, log_text, pos,
    matches, addrs, di, seen, unique_addrs, ri, calls>>

env == <<argv, isfile, logBytes>>

extraction == <<log_text, pos, matches, addrs>>

dedup == <<di, seen, unique_addrs>>

\* One print call on either stream.
Rec(kind, num, text) == [kind |-> kind, num |-> num, text |-> text]

elf_path == argv[2]

log_path == argv[3]

Init ==
  /\ argv \in Argvs
  /\ isfile \in [Paths -> BOOLEAN]
  /\ logBytes \in Logs(MaxChunks)
  /\ pc = "check_args"
  /\ exit_code = -1
  /\ out = <<>>
  /\ err = <<>>
  /\ logReads = 0
  /\ log_text = <<>>
  /\ pos = 1
  /\ matches = <<>>
  /\ addrs = <<>>
  /\ di = 1
  /\ seen = {}
  /\ unique_addrs = <<>>
  /\ ri = 1
  /\ calls = <<>>

\* ------------------------------------------------------- input validation

\* `return n` from main(): raise SystemExit(n).
Return(n) == pc' = "exit" /\ exit_code' = n

\* Path.is_file() that accepts anything.
IsFile_Always(path) == TRUE

\* Path.is_file()
IsFile(path) == isfile[path]

UsageError ==
  /\ pc = "check_args"
  /\ Len(argv) # 3
  /\ err' = Append(err, Rec("usage", 0, argv[1]))
  /\ Return(1)
  /\ UNCHANGED <<env, out, logReads, extraction, dedup, ri, calls>>

ArgsOk ==
  /\ pc = "check_args"
  /\ Len(argv) = 3
  /\ pc' = "check_elf"
  /\ UNCHANGED <<env, exit_code, out, err, logReads, extraction, dedup, ri, calls>>

ElfNotFound ==
  /\ pc = "check_elf"
  /\ ~IsFile(elf_path)
  /\ err' = Append(err, Rec("elf_not_found", 0, elf_path))
  /\ Return(1)
  /\ UNCHANGED <<env, out, logReads, extraction, dedup, ri, calls>>

ElfOk ==
  /\ pc = "check_elf"
  /\ IsFile(elf_path)
  /\ pc' = "check_log"
  /\ UNCHANGED <<env, exit_code, out, err, logReads, extraction, dedup, ri, calls>>

LogNotFound ==
  /\ pc = "check_log"
  /\ ~IsFile(log_path)
  /\ err' = Append(err, Rec("log_not_found", 0, log_path))
  /\ Return(1)
  /\ UNCHANGED <<env, out, logReads, extraction, dedup, ri, calls>>

LogOk ==
  /\ pc = "check_log"
  /\ IsFile(log_path)
  /\ pc' = "read"
  /\ UNCHANGED <<env, exit_code, out, err, logReads, extraction, dedup, ri, calls>>

\* ------------------------------------------------------------- extraction

ReadLog ==
  /\ pc = "read"
  /\ log_text' = Decode(logBytes)
  /\ logReads' = logReads + 1
  /\ pc' = "scan"
  /\ UNCHANGED <<env, exit_code, out, err, pos, matches, addrs, dedup, ri, calls>>

\* One iteration of `for m in pattern.finditer(log_text)`.
ScanMatch ==
  /\ pc = "scan"
  /\ SearchFrom(log_text, pos) # 0
  /\ LET m == MatchRec(log_text, SearchFrom(log_text, pos))
     IN  /\ matches' = Append(matches, m)
         /\ addrs' = addrs \o MatchAddrs(m)
         /\ pos' = m.end
  /\ UNCHANGED <<env, pc, exit_code, out, err, logReads, log_text, dedup, ri, calls>>

\* finditer is exhausted.
ScanDone ==
  /\ pc = "scan"
  /\ SearchFrom(log_text, pos) = 0
  /\ pc' = "dedup"
  /\ UNCHANGED <<env, exit_code, out, err, logReads, extraction, dedup, ri, calls>>

\* ---------------------------------------------------------- de-duplication

\* One iteration of `for a in addrs`.
DedupStep ==
  /\ pc = "dedup"
  /\ di <= Len(addrs)
  /\ IF IsNew(addrs[di], seen)
     THEN /\ seen' = seen \cup {addrs[di]}
          /\ unique_addrs' = Append(unique_addrs, addrs[di])
     ELSE UNCHANGED <<seen, unique_addrs>>
  /\ di' = di + 1
  /\ UNCHANGED <<env, pc, exit_code, out, err, logReads, extraction, ri, calls>>

DedupDone ==
  /\ pc = "dedup"
  /\ di > Len(addrs)
  /\ pc' = "report"
  /\ UNCHANGED <<env, exit_code, out, err, logReads, extraction, dedup, ri, calls>>

\* ----------------------------------------------------------------- report

\* An empty result treated as a failure.
NoAddresses_Failure ==
  /\ pc = "report"
  /\ unique_addrs = <<>>
  /\ err' = Append(err, Rec("no_hf_addr", 0, <<>>))
  /\ Return(1)
  /\ UNCHANGED <<env, out, logReads, extraction, dedup, ri, calls>>

\* `if not unique_addrs`: notice on the error stream, return 0.
NoAddresses ==
  /\ pc = "report"
  /\ unique_addrs = <<>>
  /\ err' = Append(err, Rec("no_hf_addr", 0, <<>>))
  /\ Return(0)
  /\ UNCHANGED <<env, out, logReads, extraction, dedup, ri, calls>>

\* A header that counts the pattern occurrences instead.
HeaderCount_Matches == Len(matches)

\* The number in the "Found N unique addresses" line.
HeaderCount == Len(unique_addrs)

PrintHeader ==
  /\ pc = "report"
  /\ unique_addrs # <<>>
  /\ out' = Append(out, Rec("header", HeaderCount, <<>>))
  /\ pc' = "loop"
  /\ UNCHANGED <<env, exit_code, err, logReads, extraction, dedup, ri, calls>>

\* `for addr in unique_addrs`: print(f'0x{addr:08X}:')
PrintAddr ==
  /\ pc = "loop"
  /\ ri <= Len(unique_addrs)
  /\ out' = Append(out, Rec("addr", 0, Format08X(unique_addrs[ri]) \o <<":">>))
  /\ pc' = "call"
  /\ UNCHANGED <<env, exit_code, err, logReads, extraction, dedup, ri, calls>>

\* The command line addr2line() builds.
Cmd(addr) ==
  [prog |-> "arm-none-eabi-addr2line", flags |-> <<"-f", "-C", "-e">>,
   elf |-> elf_path, addr |-> Format08X(addr)]

\* One attempt to run the resolver, as the environment sees it.
Call(addr, outcome, text) == [cmd |-> Cmd(addr), outcome |-> outcome, output |-> text]

ErrorPrefix ==
  <<"<", "a", "d", "d", "r", "2", "l", "i", "n", "e", " ", "e", "r", "r", "o", "r", ":", " ">>

\* f'<addr2line error: {e.output.strip()}>'
ErrorMarker(text) == ErrorPrefix \o Strip(text) \o <<">">>

\* check_output returns: print(out.strip())
ResolveOk ==
  /\ pc = "call"
  /\ \E text \in ResolverOutputs :
       /\ calls' = Append(calls, Call(unique_addrs[ri], "ok", text))
       /\ out' = Append(out, Rec("result", 0, Strip(text)))
  /\ pc' = "blank"
  /\ UNCHANGED <<env, exit_code, err, logReads, extraction, dedup, ri>>

\* A resolver failure that is left to propagate out of main().
ResolveFailed_Fatal ==
  /\ pc = "call"
  /\ \E text \in ResolverOutputs :
       calls' = Append(calls, Call(unique_addrs[ri], "nonzero", text))
  /\ err' = Append(err, Rec("traceback", 0, <<>>))
  /\ pc' = "crashed"
  /\ exit_code' = 1
  /\ UNCHANGED <<env, out, logReads, extraction, dedup, ri>>

\* CalledProcessError is caught: print the error marker.
ResolveFailed ==
  /\ pc = "call"
  /\ \E text \in ResolverOutputs :
       /\ calls' = Append(calls, Call(unique_addrs[ri], "nonzero", text))
       /\ out' = Append(out, Rec("result", 0, ErrorMarker(text)))
  /\ pc' = "blank"
  /\ UNCHANGED <<env, exit_code, err, logReads, extraction, dedup, ri>>

\* A launch failure handled like a non-zero exit.
ResolverNotLaunched_Caught ==
  /\ pc = "call"
  /\ calls' = Append(calls, Call(unique_addrs[ri], "not_launched", <<>>))
  /\ out' = Append(out, Rec("result", 0, ErrorMarker(<<>>)))
  /\ pc' = "blank"
  /\ UNCHANGED <<env, exit_code, err, logReads, extraction, dedup, ri>>

\* The resolver cannot be started: check_output raises an OSError, which
\* nothing catches; the interpreter prints a traceback and exits with 1.
ResolverNotLaunched ==
  /\ pc = "call"
  /\ calls' = Append(calls, Call(unique_addrs[ri], "not_launched", <<>>))
  /\ err' = Append(err, Rec("traceback", 0, <<>>))
  /\ pc' = "crashed"
  /\ exit_code' = 1
  /\ UNCHANGED <<env, out, logReads, extraction, dedup, ri>>

\* A loop that tries an address once more when its resolution failed.
PrintBlank_RetryOnce ==
  /\ pc = "blank"
  /\ out' = Append(out, Rec("blank", 0, <<>>))
  /\ ri' = IF /\ calls[Len(calls)].outcome = "nonzero"
              /\ (Len(calls) = 1 \/ calls[Len(calls) - 1].cmd # calls[Len(calls)].cmd)
           THEN ri ELSE ri + 1
  /\ pc' = "loop"
  /\ UNCHANGED <<env, exit_code, err, logReads, extraction, dedup, calls>>

\* print(), then the next address.
PrintBlank ==
  /\ pc = "blank"
  /\ out' = Append(out, Rec("blank", 0, <<>>))
  /\ ri' = ri + 1
  /\ pc' = "loop"
  /\ UNCHANGED <<env, exit_code, err, logReads, extraction, dedup, calls>>

\* The loop is over: return 0.
Finish ==
  /\ pc = "loop"
  /\ ri > Len(unique_addrs)
  /\ Return(0)
  /\ UNCHANGED <<env, out, err, logReads, extraction, dedup, ri, calls>>

Next ==
  \/ UsageError
  \/ ArgsOk
  \/ ElfNotFound
  \/ ElfOk
  \/ LogNotFound
  \/ LogOk
  \/ ReadLog
  \/ ScanMatch
  \/ ScanDone
  \/ DedupStep
  \/ DedupDone
  \/ NoAddresses
  \/ PrintHeader
  \/ PrintAddr
  \/ ResolveOk
  \/ ResolveFailed
  \/ ResolverNotLaunched
  \/ PrintBlank
  \/ Finish

Spec == Init /\ [][Next]_vars

\* ---------------------------------------------------- reading the outcome

\* The text of the log as the program decodes it.
LogText == Decode(logBytes)

\* Every position of text where the pattern matches.
MatchStartsIn(text) == {i \in 1..Len(text) : MatchesAt(text, i)}

\* Every PC and LR field of every pattern match in text, as text.
FieldsIn(text) ==
  UNION {{MatchRec(text, i).pc_hex, MatchRec(text, i).lr_hex} : i \in MatchStartsIn(text)}

AllMatchStarts == MatchStartsIn(LogText)

AllFields == FieldsIn(LogText)

\* The distinct integers those fields denote.
FieldValues == {ParseHex(f) : f \in AllFields}

\* Positions of the entries of a given kind on standard output.
OutIdx(kind) == {k \in 1..Len(out) : out[k].kind = kind}

\* The digits of an address line "0xXXXXXXXX:" or of an argument "0xXXXXXXXX".
DigitsOfLine(t) == SubSeq(t, 3, Len(t) - 1)

DigitsOfArg(t) == SubSeq(t, 3, Len(t))

\* The addresses that have an entry in the report.
ReportedAddrs == {ParseHex(DigitsOfLine(out[k].text)) : k \in OutIdx("addr")}

\* Index of the first occurrence of a in seq.
FirstOcc(seq, a) ==
  CHOOSE i \in 1..Len(seq) : seq[i] = a /\ \A j \in 1..(i - 1) : seq[j] # a

\* The program is past the de-duplication loop.
Deduplicated == pc \in {"report", "loop", "call", "blank", "exit", "crashed"} /\ logReads > 0

\* The run ended by a return from main() after the report loop or the notice.
EndedNormally == pc = "exit" /\ logReads > 0

\* Some validation check fails for this invocation.
InvalidInvocation ==
  \/ Len(argv) # 3
  \/ ~isfile[argv[2]]
  \/ ~isfile[argv[3]]

\* The diagnostic of the first failing check.
FirstDiagnostic ==
  IF Len(argv) # 3 THEN Rec("usage", 0, argv[1])
  ELSE IF ~isfile[argv[2]] THEN Rec("elf_not_found", 0, argv[2])
  ELSE Rec("log_not_found", 0, argv[3])

\* One letter in upper case.
ToUpperChar(c) ==
  IF \E k \in 1..16 : LowerHex[k] = c
  THEN UpperHex[CHOOSE k \in 1..16 : LowerHex[k] = c]
  ELSE c

ToUpper(s) == [k \in 1..Len(s) |-> ToUpperChar(s[k])]

\* The report's entry number k is complete: address line, result, blank line.
EntryComplete(k) ==
  /\ Len(out) >= 3 * k + 1
  /\ out[3 * k - 1].kind = "addr"
  /\ out[3 * k].kind = "result"
  /\ out[3 * k + 1].kind = "blank"

\* The text the report shows for resolver call number k.
ShownResult(c) ==
  IF c.outcome = "ok" THEN Strip(c.output)
  ELSE ErrorPrefix \o Strip(c.output) \o <<">">>

\* ------------------------------------------------------------------ claims

\* C1: when the run ends normally, the set of addresses that have an entry in
\* the report equals the set of distinct integers denoted by the PC and LR
\* fields of all pattern matches in the log.
C1_ReportSetEqualsMatchedValues ==
  (EndedNormally /\ exit_code = 0) => ReportedAddrs = FieldValues

C1_Witness ==
  /\ EndedNormally
  /\ Len(matches) >= 2
  /\ Cardinality(ReportedAddrs) >= 2
  /\ Len(addrs) > Cardinality(ReportedAddrs)

\* C2: after de-duplication AddressList holds no value twice, holds exactly
\* the values of the working sequence, and orders them by first occurrence
\* in the working sequence; the spec's example line yields
\* [0x08001234, 0x08000F00].
C2_FirstOccurrenceOrder ==
  Deduplicated =>
    /\ \A i, j \in 1..Len(unique_addrs) : i # j => unique_addrs[i] # unique_addrs[j]
    /\ {unique_addrs[i] : i \in 1..Len(unique_addrs)} = {addrs[i] : i \in 1..Len(addrs)}
    /\ \A i, j \in 1..Len(unique_addrs) :
         i < j <=> FirstOcc(addrs, unique_addrs[i]) < FirstOcc(addrs, unique_addrs[j])
    /\ (log_text = Line(<<" ">>, H_1234, <<" ">>, H_0F00, <<"\n">>)
          => unique_addrs = <<134222388, 134221568>>)

C2_Witness ==
  /\ Deduplicated
  /\ Len(unique_addrs) >= 2
  /\ Len(addrs) > Len(unique_addrs)
  /\ \E i \in 1..Len(addrs) : \E j \in (i + 2)..Len(addrs) : addrs[i] = addrs[j]

\* C3: when the argument count is wrong or the ELF or the log is not a regular
\* file, the log is never read, nothing is extracted, the resolver is never
\* run, standard output stays empty, and the run ends with status 1 and the
\* diagnostic of the first failing check only (argument count, ELF, log).
C3_InvalidInvocationFailsEarly ==
  InvalidInvocation =>
    /\ logReads = 0
    /\ addrs = <<>>
    /\ unique_addrs = <<>>
    /\ calls = <<>>
    /\ out = <<>>
    /\ pc \in {"check_args", "check_elf", "check_log", "exit"}
    /\ (pc = "exit" => exit_code = 1 /\ err = <<FirstDiagnostic>>)
    /\ (pc # "exit" => exit_code = -1 /\ err = <<>>)

C3_Witness ==
  /\ pc = "exit"
  /\ Len(argv) = 3
  /\ ~isfile[argv[2]]
  /\ ~isfile[argv[3]]
  /\ Len(logBytes) > 0

\* C4: a non-zero exit of the resolver is never fatal: the entry of that
\* address shows the bracketed marker around the trimmed output, the loop goes
\* on to the next address, and the run ends with status 0 with every address
\* resolved, whatever the number of failed resolutions.
C4_ResolverFailureNotFatal ==
  /\ \A k \in 1..Len(calls) :
       calls[k].outcome = "nonzero" =>
         /\ Len(out) >= 3 * k
         /\ out[3 * k].kind = "result"
         /\ out[3 * k].text = ErrorPrefix \o Strip(calls[k].output) \o <<">">>
         /\ pc # "crashed" \/ k < Len(calls)
  /\ (pc = "blank" /\ calls[Len(calls)].outcome = "nonzero") => ENABLED PrintBlank
  /\ (pc = "loop" /\ ri <= Len(unique_addrs)) => ENABLED PrintAddr
  /\ pc = "call" => ENABLED ResolveOk
  /\ EndedNormally => exit_code = 0
  /\ (EndedNormally /\ out # <<>>) =>
       /\ Len(calls) = Len(unique_addrs)
       /\ \A k \in 1..Len(calls) : EntryComplete(k) /\ out[3 * k].text = ShownResult(calls[k])

C4_Witness ==
  /\ EndedNormally
  /\ exit_code = 0
  /\ \E k \in 1..(Len(calls) - 1) :
       /\ calls[k].outcome = "nonzero"
       /\ calls[k + 1].outcome = "ok"
       /\ out[3 * (k + 1)].text = Strip(calls[k + 1].output)

\* C5: with both files present and no pattern match in the log, nothing is
\* ever written to standard output, the resolver is never run, and the run
\* ends with status 0 after one notice on the error stream.
C5_NoMatchIsSuccess ==
  ~InvalidInvocation =>
    \/ /\ out = <<>>
       /\ calls = <<>>
       /\ pc \notin {"loop", "call", "blank", "crashed"}
       /\ (pc = "exit" => exit_code = 0 /\ err = <<Rec("no_hf_addr", 0, <<>>)>>)
       /\ (pc # "exit" => err = <<>>)
       /\ (pc = "report" => ENABLED NoAddresses)
    \/ AllMatchStarts # {}

C5_Witness ==
  /\ pc = "exit"
  /\ ~InvalidInvocation
  /\ AllMatchStarts = {}
  /\ \E i \in 1..Len(log_text) : LitAt(log_text, i, Tok_HF_ADDR)

\* C6: every match the extractor yields has a PC field and an LR field of
\* exactly 8 hexadecimal digits: the digit run at each field is 8 long, so an
\* occurrence with a longer or shorter field contributes no address.
C6_FieldsExactlyEightDigits ==
  \A k \in 1..Len(matches) :
    /\ HexRun(log_text, matches[k].pc_at) = HexLen
    /\ HexRun(log_text, matches[k].lr_at) = HexLen

\* C7: the resolver is run once for each address of AddressList, in order,
\* never twice for a value and never for another value, and the report's
\* entries are in AddressList order, each showing the result of the run for
\* its own address.
C7_OneInvocationPerAddress ==
  /\ Len(calls) <= Len(unique_addrs)
  /\ \A k \in 1..Len(calls) :
       /\ ParseHex(DigitsOfArg(calls[k].cmd.addr)) = unique_addrs[k]
       /\ calls[k].cmd.elf = argv[2]
  /\ \A j, k \in 1..Len(calls) :
       j < k => ParseHex(DigitsOfArg(calls[j].cmd.addr)) # ParseHex(DigitsOfArg(calls[k].cmd.addr))
  /\ \A k \in OutIdx("addr") :
       /\ k % 3 = 2
       /\ (k + 1) \div 3 <= Len(unique_addrs)
       /\ ParseHex(DigitsOfLine(out[k].text)) = unique_addrs[(k + 1) \div 3]
  /\ \A k \in OutIdx("result") :
       /\ k % 3 = 0
       /\ k \div 3 <= Len(calls)
       /\ out[k].text = ShownResult(calls[k \div 3])
  /\ (EndedNormally /\ unique_addrs # <<>>) =>
       /\ Len(calls) = Len(unique_addrs)
       /\ Len(out) = 1 + 3 * Len(unique_addrs)

C7_Witness ==
  /\ EndedNormally
  /\ Len(calls) >= 3
  /\ Len(addrs) > Len(unique_addrs)
  /\ \E k \in 1..Len(calls) : calls[k].outcome = "nonzero"

\* C8: fields that differ only in letter case denote the same Address; each
\* Address is in AddressList exactly once and is printed and passed to the
\* resolver as 0x followed by the 8 digits in upper case.
C8_CaseInsensitiveIdentity ==
  LET fields == AllFields
  IN  /\ pc = "dedup" =>
           \A f, g \in fields : ToUpper(f) = ToUpper(g) => ParseHex(f) = ParseHex(g)
      /\ Deduplicated =>
           \A f \in fields :
             Cardinality({k \in 1..Len(unique_addrs) : unique_addrs[k] = ParseHex(f)}) = 1
      /\ \A k \in 1..Len(calls) :
           \E f \in fields :
             /\ unique_addrs[k] = ParseHex(f)
             /\ calls[k].cmd.addr = <<"0", "x">> \o ToUpper(f)
             /\ out[3 * k - 1].text = <<"0", "x">> \o ToUpper(f) \o <<":">>

C8_Witness ==
  /\ EndedNormally
  /\ \E f, g \in AllFields :
       /\ f # g
       /\ ToUpper(f) = ToUpper(g)
       /\ f # ToUpper(f)
       /\ \E k \in 1..Len(calls) : calls[k].cmd.addr = <<"0", "x">> \o ToUpper(f)

\* C9 as stated: the number in the header line is the number of pattern
\* occurrences found in the log.
C9_HeaderIsMatchCount ==
  \A k \in OutIdx("header") : out[k].num = Cardinality(AllMatchStarts)

\* C9 amended: the report starts with one header line, and its number is the
\* number of distinct addresses, i.e. the length of AddressList.
C9_HeaderIsUniqueAddressCount ==
  /\ \A k \in OutIdx("header") : k = 1 /\ out[k].num = Cardinality(FieldValues)
  /\ out # <<>> => out[1].kind = "header"

C9_Witness ==
  /\ OutIdx("header") # {}
  /\ Cardinality(AllMatchStarts) >= 2
  /\ out[1].num # 2 * Cardinality(AllMatchStarts)

\* C10: when the resolver cannot be launched for address A the run stops
\* there abnormally: no further action is taken, the status is not 0, A's is
\* the last resolver attempt, and standard output holds the header, the
\* complete entries of the addresses before A, and A's address line.
C10_LaunchFailureStopsRun ==
  /\ \A k \in 1..Len(calls) :
       calls[k].outcome = "not_launched" => pc = "crashed" /\ k = Len(calls)
  /\ pc = "crashed" =>
       /\ ~ENABLED Next
       /\ exit_code # 0
       /\ Len(calls) = ri
       /\ calls[ri].outcome = "not_launched"
       /\ ParseHex(DigitsOfArg(calls[ri].cmd.addr)) = unique_addrs[ri]
       /\ out[1].kind = "header"
       /\ \A k \in 1..(ri - 1) : EntryComplete(k)
       /\ Len(out) = 3 * ri - 1
       /\ out[Len(out)] = Rec("addr", 0, Format08X(unique_addrs[ri]) \o <<":">>)

C10_Witness ==
  /\ pc = "crashed"
  /\ ri >= 2
  /\ ri < Len(unique_addrs)
  /\ calls[ri].outcome = "not_launched"

====
